---- MODULE Spec2Model ----
(***************************************************************************)
(* climetlab/plotting/drivers/magics/__init__.py: the value-resolution     *)
(* engine (_apply), the directive and layer model (Action, Layer) and the  *)
(* pipeline Driver.                                                        *)
(*                                                                         *)
(* Python values are modelled as follows.                                  *)
(*  - An object reference is a natural number: 0 is None, n > 0 is the     *)
(*    Action instance heap[n].  Two slots holding the same number hold the *)
(*    same Python object.  Between calls the heap holds the instances some *)
(*    Driver slot (or FieldAction.default_style) refers to, numbered in    *)
(*    slot order: the others are unreachable, and two heaps that differ in *)
(*    the order of allocation alone are the same heap.                     *)
(*  - A string used as a dictionary key is a sequence of tokens: a name is *)
(*    one token (<<"legend">>), a prefix character is one token, so        *)
(*    "+legend" is <<"+", "legend">>, k[0] is Head(k) and k[1:] is Tail(k).*)
(*  - A dict given by the caller is ordered: a sequence of [k, v] items    *)
(*    with distinct keys.  The kwargs of an Action are a function from     *)
(*    keys to values (their order is never observed).                      *)
(*  - A value stored under a key is [lit |-> s], [num |-> n],              *)
(*    [dict |-> items] or [list |-> keys].                                 *)
(*  - An argument of _apply is [kind |-> "None"], [kind |-> "bool", ...],  *)
(*    [kind |-> "dict", items |-> ...] or [kind |-> "str", s |-> ...].     *)
(***************************************************************************)
EXTENDS Integers, Sequences, FiniteSets, TLC

VARIABLES
    heap,         \* the Action instances created so far
    MAGICS_KEYS,  \* the module global: the Parameter Index, or None
    drivers,      \* the fields of every Driver constructed
    last,         \* the last call made: its arguments, what it raised, the
                  \* calls it made to the external collaborators
    supplied,     \* per Driver, the boxes handed to bounding_box so far
    calls         \* per thread, the call of _apply it is in and where it is
                  \* in it (empty when calls are made one after the other)

vars == <<heap, MAGICS_KEYS, drivers, last, supplied, calls>>

\* ------------------------------------------------------------ bounds

\* The most layers pushed on one Driver.
MaxLayers == 2

\* The most boxes handed to one Driver by bounding_box calls.
MaxBoxes == 2

\* ------------------------------------------------------- Python values

\* F applied to the value of e: e is evaluated once, before F's body
Val(e, F(_)) == CHOOSE y \in {F(x) : x \in {e}} : TRUE

None == 0

VNone == [kind |-> "None"]

VTrue == [kind |-> "bool", b |-> TRUE]

VFalse == [kind |-> "bool", b |-> FALSE]

VStr(s) == [kind |-> "str", s |-> s]

VDict(items) == [kind |-> "dict", items |-> items]

Lit(s) == [lit |-> s]

Num(n) == [num |-> n]

Item(k, v) == [k |-> k, v |-> v]

\* d has key k
DictHas(d, k) == \E i \in 1..Len(d) : d[i].k = k

\* d.get(k, dflt)
DictGet(d, k, dflt) ==
    IF DictHas(d, k) THEN d[CHOOSE i \in 1..Len(d) : d[i].k = k].v ELSE dflt

\* d[k] = v on an insertion-ordered dict
DictSet(d, k, v) ==
    IF DictHas(d, k)
    THEN [i \in 1..Len(d) |-> IF d[i].k = k THEN Item(k, v) ELSE d[i]]
    ELSE Append(d, Item(k, v))

\* kwargs[k] = v
KwSet(kw, k, v) == [x \in (DOMAIN kw) \cup {k} |-> IF x = k THEN v ELSE kw[x]]

\* kwargs.pop(k, None)
KwPop(kw, k) == [x \in (DOMAIN kw) \ {k} |-> kw[x]]

\* kwargs.get(k, dflt)
KwGet(kw, k, dflt) == IF k \in DOMAIN kw THEN kw[k] ELSE dflt

\* dict(**items): the kwargs bag built from a caller's dict (its keys differ)
KwOf(items) ==
    [k \in {items[i].k : i \in 1..Len(items)} |->
        items[CHOOSE i \in 1..Len(items) : items[i].k = k].v]

\* ---------------------------------------------------- class hierarchy

\* The Action classes of the module: the names globals()[name] resolves to
\* a directive type.
Classes ==
    {"Action", "FieldAction", "mcoast", "mcont", "mgrib", "minput", "mmap",
     "mnetcdf", "msymb", "mtable", "mtext", "output"}

\* class X(Base)
Base(cls) ==
    CASE cls \in {"mgrib", "mnetcdf", "minput"} -> "FieldAction"
      [] cls = "Action" -> "object"
      [] OTHER -> "Action"

\* isinstance(an instance of cls, action)
IsInstance(cls, action) ==
    \/ cls = action
    \/ Base(cls) = action
    \/ (Base(cls) # "object" /\ Base(Base(cls)) = action)

\* Action.__init__: a new instance, appended to the heap
NewAction(h, cls, kw) == Append(h, [action |-> cls, kwargs |-> kw])

\* FieldAction.default_style: one mcont instance, created when the class
\* body runs and shared by every FieldAction subclass
FieldAction_default_style == 1

ImportHeap ==
    <<[action |-> "mcont",
       kwargs |-> KwOf(<<Item(<<"contour_automatic_setting">>, Lit("ecmwf")),
                         Item(<<"legend">>, Lit("False"))>>)]>>

\* cls.default_style
default_style(cls) ==
    IF IsInstance(cls, "FieldAction") THEN FieldAction_default_style ELSE None

\* ------------------------------------------------------ Action.update

\* the loop's turn with "=" setting the key whether or not it is there
UpdateItemOverride(kw, k, v) ==
    IF Head(k) \in {"+", "="} THEN KwSet(kw, Tail(k), v)
    ELSE IF Head(k) = "-" THEN KwPop(kw, Tail(k))
    ELSE kw

\* one turn of the loop over values.items(): the three tests, in order
UpdateItem(kw, k, v) ==
    Val(IF Head(k) = "+" THEN KwSet(kw, Tail(k), v) ELSE kw, LAMBDA a :
    Val(IF Head(k) = "-" THEN KwPop(a, Tail(k)) ELSE a, LAMBDA b :
        IF Head(k) = "=" /\ Tail(k) \notin DOMAIN b
        THEN KwSet(b, Tail(k), v) ELSE b))

\* the loop over values.items(), from item i on
RECURSIVE UpdateLoop(_, _, _)
UpdateLoop(kw, values, i) ==
    IF i > Len(values) THEN kw
    ELSE Val(UpdateItem(kw, values[i].k, values[i].v), LAMBDA c :
             UpdateLoop(c, values, i + 1))

\* update giving back a new instance with the values applied
Action_update_copy(h, self, action, values) ==
    IF IsInstance(h[self].action, action)
    THEN [obj |-> Len(h) + 1,
          heap |-> NewAction(h, h[self].action,
                             UpdateLoop(h[self].kwargs, values, 1))]
    ELSE [obj |-> None, heap |-> h]

\* update without the isinstance test
Action_update_any(h, self, action, values) ==
    [obj |-> self,
     heap |-> [h EXCEPT ![self].kwargs = UpdateLoop(@, values, 1)]]

\* Action.update(self, action, values): [obj, heap]; obj = None is "no match"
Action_update(h, self, action, values) ==
    IF IsInstance(h[self].action, action)
    THEN [obj |-> self,
          heap |-> [h EXCEPT ![self].kwargs = UpdateLoop(@, values, 1)]]
    ELSE [obj |-> None, heap |-> h]

\* ------------------------------------------- external tables (not in src)

\* magics.yaml: directive type name -> the parameter names it accepts.  A
\* representative extract: "legend" is accepted by two types, "maxis" is a
\* type of the renderer for which this module defines no class.
magics_yaml ==
    <<[name |-> "mcoast",
       params |-> {<<"map_grid">>, <<"map_coastline">>, <<"map_label">>}],
      [name |-> "mcont",
       params |-> {<<"contour_line_colour">>, <<"legend">>}],
      [name |-> "mmap",
       params |-> {<<"subpage_map_projection">>,
                   <<"subpage_lower_left_latitude">>,
                   <<"subpage_lower_left_longitude">>,
                   <<"subpage_upper_right_latitude">>,
                   <<"subpage_upper_right_longitude">>}],
      [name |-> "msymb",
       params |-> {<<"symbol_type">>, <<"legend">>}],
      [name |-> "maxis",
       params |-> {<<"axis_type">>}]>>

\* Python's order of the type names above (sorted() on strings)
NameOrder == <<"maxis", "mcoast", "mcont", "mmap", "msymb">>

Rank(name) == CHOOSE i \in 1..Len(NameOrder) : NameOrder[i] = name

\* The preset store behind get_data_entry(collection, name).data["magics"]:
\* each entry lists its directive types with their parameters.
PresetStore ==
    {[collection |-> "layers", name |-> "default-background",
      magics |-> <<[action |-> "mcoast",
                    params |-> <<Item(<<"map_coastline_land_shade">>, Lit("True"))>>]>>],
     [collection |-> "layers", name |-> "default-foreground",
      magics |-> <<[action |-> "mcoast",
                    params |-> <<Item(<<"map_grid">>, Lit("False"))>>]>>],
     [collection |-> "styles", name |-> "default-style-observations",
      magics |-> <<[action |-> "msymb",
                    params |-> <<Item(<<"symbol_type">>, Lit("marker"))>>]>>],
     [collection |-> "styles", name |-> "two-actions",
      magics |-> <<[action |-> "mcont", params |-> <<>>],
                   [action |-> "msymb", params |-> <<>>]>>],
     [collection |-> "projections", name |-> "global",
      magics |-> <<[action |-> "mmap",
                    params |-> <<Item(<<"subpage_map_projection">>, Lit("cylindrical"))>>]>>],
     [collection |-> "projections", name |-> "europe",
      magics |-> <<[action |-> "mmap",
                    params |-> <<Item(<<"subpage_map_projection">>, Lit("cylindrical")),
                                 Item(<<"subpage_lower_left_latitude">>, Num(20)),
                                 Item(<<"subpage_lower_left_longitude">>, Num(-20)),
                                 Item(<<"subpage_upper_right_latitude">>, Num(80)),
                                 Item(<<"subpage_upper_right_longitude">>, Num(40))>>]>>]}

\* get_data_entry(collection, name): the entries found (none: the lookup fails)
get_data_entry(collection, name) ==
    {e \in PresetStore : e.collection = collection /\ e.name = name}

\* ------------------------------------------------------ Parameter Index

\* MAGICS_KEYS = None
KeysNone == [built |-> FALSE, index |-> <<>>]

\* the defaultdict(set) filled from magics.yaml: parameter -> type names
LoadKeys ==
    [built |-> TRUE,
     index |-> [p \in UNION {magics_yaml[i].params : i \in 1..Len(magics_yaml)} |->
                  {magics_yaml[i].name : i \in {j \in 1..Len(magics_yaml) :
                                                   p \in magics_yaml[j].params}}]]

\* if MAGICS_KEYS is None: load it
EnsureKeys(K) == IF K.built THEN K ELSE LoadKeys

\* MAGICS_KEYS.get(param, [])
KeysGet(K, param) == IF param \in DOMAIN K.index THEN K.index[param] ELSE {}

\* ------------------------------------------------------------- _apply

\* param[0].isalpha(): every token but a prefix character starts a name
IsAlpha(tok) == tok \notin {"+", "-", "=", "*"}

\* the outcome of a call: err = "" when it returned, obj its result
Return(obj, h, K, rd) ==
    [err |-> "", obj |-> obj, heap |-> h, keys |-> K, reads |-> rd]

Raise(e, h, K, rd) ==
    [err |-> e, obj |-> None, heap |-> h, keys |-> K, reads |-> rd]

NoReads == [store |-> 0, index |-> 0]

\* newvalue of the set/clear and +/- rewrites: "+k" for every added item,
\* then "-k" for every removed key
RECURSIVE Prefixed(_, _, _, _)
Prefixed(acc, adds, removes, i) ==
    IF i <= Len(adds)
    THEN Val(DictSet(acc, <<"+">> \o adds[i].k, adds[i].v), LAMBDA a :
             Prefixed(a, adds, removes, i + 1))
    ELSE IF i <= Len(adds) + Len(removes)
    THEN Val(DictSet(acc, <<"-">> \o removes[i - Len(adds)], Lit("None")), LAMBDA a :
             Prefixed(a, adds, removes, i + 1))
    ELSE acc

\* iterating the value given under "clear" / "-": a list gives its elements,
\* a dict its keys
Iterated(v) ==
    IF "list" \in DOMAIN v THEN v.list
    ELSE [i \in 1..Len(v.dict) |-> v.dict[i].k]

\* the keys of the flat dictionary that count as special (prefixed)
SpecialCount(items) ==
    Cardinality({i \in 1..Len(items) : ~IsAlpha(Head(items[i].k))})

\* the key looked up as written, prefix and all
ScoredParamAsWritten(k) == k

\* the parameter name a key is scored under
ScoredParam(k) == IF IsAlpha(Head(k)) THEN k ELSE Tail(k)

\* scores[name]: the keys whose parameter belongs to that type alone
Score(K, items, name) ==
    Cardinality({i \in 1..Len(items) : KeysGet(K, ScoredParam(items[i].k)) = {name}})

\* the names with an entry in scores
Scored(K, items) ==
    {n \in {NameOrder[i] : i \in 1..Len(NameOrder)} : Score(K, items, n) > 0}

\* the order of a sort with the highest score first
PairLessDescending(K, items, n, m) ==
    \/ Score(K, items, n) > Score(K, items, m)
    \/ (Score(K, items, n) = Score(K, items, m) /\ Rank(n) < Rank(m))

\* (v1, k1) < (v2, k2) in sorted((v, k) for k, v in scores.items())
PairLess(K, items, n, m) ==
    \/ Score(K, items, n) < Score(K, items, m)
    \/ (Score(K, items, n) = Score(K, items, m) /\ Rank(n) < Rank(m))

\* best[0][1]
Best(K, items) ==
    CHOOSE n \in Scored(K, items) :
        \A m \in Scored(K, items) \ {n} : PairLess(K, items, n, m)

\* the action given kept when there is one, the guess used otherwise
GuessedUnlessGiven(K, items, action) ==
    IF action # "None" THEN action
    ELSE IF Scored(K, items) # {} THEN Best(K, items) ELSE action

\* lines 235-236: the action after the guess
Guessed(K, items, action) ==
    IF Scored(K, items) # {} THEN Best(K, items) ELSE action

\* target.update(action, value): target is [layer, ref]; a Layer delegates
\* to its _style (Layer.update)
Target_update(h, target, action, values) == Action_update(h, target.ref, action, values)

TargetNone == [layer |-> FALSE, ref |-> None]

TargetAction(id) == [layer |-> FALSE, ref |-> id]

TargetLayer(style_id) == [layer |-> TRUE, ref |-> style_id]

\* lines 238-253 without the test special != len(value)
ApplyGuessedUnmixed(items, act, target, h, K, rd) ==
    IF SpecialCount(items) # 0
    THEN IF target.ref = None THEN Raise("AttributeError", h, K, rd)
         ELSE IF act = "None" THEN Raise("TypeError", h, K, rd)
         ELSE Val(Target_update(h, target, act, items), LAMBDA u :
                  IF u.obj # None THEN Return(u.obj, u.heap, K, rd)
                  ELSE Raise("Exception: no matching style", u.heap, K, rd))
    ELSE IF act = "None" THEN Raise("TypeError", h, K, rd)
    ELSE Return(Len(h) + 1, NewAction(h, act, KwOf(items)), K, rd)

\* lines 238-253: the overrides applied to the target, or a new directive
ApplyGuessed(items, act, target, h, K, rd) ==
    IF SpecialCount(items) # 0
    THEN IF SpecialCount(items) # Len(items)
         THEN Raise("Exception: cannot mix", h, K, rd)
         ELSE IF target.ref = None THEN Raise("AttributeError", h, K, rd)
         ELSE IF act = "None" THEN Raise("TypeError", h, K, rd)
         ELSE Val(Target_update(h, target, act, items), LAMBDA u :
                  IF u.obj # None THEN Return(u.obj, u.heap, K, rd)
                  ELSE Raise("Exception: no matching style", u.heap, K, rd))
    ELSE IF act = "None" THEN Raise("TypeError", h, K, rd)
    ELSE Return(Len(h) + 1, NewAction(h, act, KwOf(items)), K, rd)

\* lines 197-253: the flat-dictionary branch, MAGICS_KEYS loaded
ApplyFlat(items, action, target, h, K) ==
    Val(Guessed(K, items, action), LAMBDA act :
        IF act \notin Classes \cup {"None"}
        THEN Raise("KeyError", h, K, [store |-> 0, index |-> Len(items)])
        ELSE ApplyGuessed(items, act, target, h, K,
                          [store |-> 0, index |-> Len(items)]))

\* lines 255-266: the preset-name branch
ApplyName(collection, name, h, K) ==
    LET found == get_data_entry(collection, name)
        rd == [store |-> 1, index |-> 0]
    IN  IF found = {} THEN Raise("LookupError", h, K, rd)
        ELSE LET magics == (CHOOSE e \in found : TRUE).magics
             IN  IF Len(magics) # 1 THEN Raise("AssertionError", h, K, rd)
                 ELSE IF magics[1].action \notin Classes THEN Raise("KeyError", h, K, rd)
                 ELSE Return(Len(h) + 1,
                             NewAction(h, magics[1].action, KwOf(magics[1].params)),
                             K, rd)

\* the rewrite without the loop over the removed keys
RewrittenAddsOnly(items, plus, minus) ==
    LET adds == DictGet(items, <<plus>>, [dict |-> <<>>])
    IN  IF "dict" \notin DOMAIN adds THEN [err |-> "AttributeError"]
        ELSE [err |-> "", value |-> VDict(Prefixed(<<>>, adds.dict, <<>>, 1))]

\* lines 165-195: the dictionary rewritten from its grouped form (added items
\* under `plus`, removed keys under `minus`), or the exception raised
Rewritten(items, plus, minus) ==
    LET adds == DictGet(items, <<plus>>, [dict |-> <<>>])
        removes == DictGet(items, <<minus>>, [list |-> <<>>])
    IN  IF "dict" \notin DOMAIN adds THEN [err |-> "AttributeError"]
        ELSE IF DOMAIN removes \cap {"list", "dict"} = {} THEN [err |-> "TypeError"]
        ELSE [err |-> "", value |-> VDict(Prefixed(<<>>, adds.dict, Iterated(removes), 1))]

\* the test without the one for False
SuppressedNoneOnly(value) == value.kind = "None"

\* lines 147-151: value is None, or value is False
Suppressed(value) == value.kind = "None" \/ value = VFalse

\* the keyword arguments without target, left at its default None
OnTrueNoTarget(collection, action, default, target) ==
    [value |-> default, collection |-> collection, action |-> action,
     default |-> VNone, target |-> TargetNone]

\* lines 155-161: the keyword arguments of the call made when value is True
OnTrue(collection, action, default, target) ==
    [value |-> default, collection |-> collection, action |-> action,
     default |-> VNone, target |-> target]

\* _apply(*, value, collection, action, default, target) on heap h with
\* MAGICS_KEYS = K
RECURSIVE _apply(_, _, _, _, _, _, _)
_apply(value, collection, action, default, target, h, K) ==
    IF Suppressed(value) THEN Return(None, h, K, NoReads)
    ELSE IF value = VTrue
    THEN IF default = VTrue THEN Raise("AssertionError", h, K, NoReads)
         ELSE Val(OnTrue(collection, action, default, target), LAMBDA a :
                  _apply(a.value, a.collection, a.action, a.default, a.target, h, K))
    ELSE IF value.kind = "dict"
    THEN IF DictHas(value.items, <<"set">>) \/ DictHas(value.items, <<"clear">>)
         THEN Val(Rewritten(value.items, "set", "clear"), LAMBDA n :
                  IF n.err # "" THEN Raise(n.err, h, K, NoReads)
                  ELSE _apply(n.value, collection, action, default, target, h, K))
         ELSE IF DictHas(value.items, <<"+">>) \/ DictHas(value.items, <<"-">>)
         THEN Val(Rewritten(value.items, "+", "-"), LAMBDA n :
                  IF n.err # "" THEN Raise(n.err, h, K, NoReads)
                  ELSE _apply(n.value, collection, action, default, target, h, K))
         ELSE Val(EnsureKeys(K), LAMBDA K1 :
                  ApplyFlat(value.items, action, target, h, K1))
    ELSE IF value.kind = "str" THEN ApplyName(collection, value.s, h, K)
    ELSE Raise("AssertionError", h, K, NoReads)

\* ------------------------------------------- BoundingBox (core/bbox.py)

\* BoundingBox(north=, west=, south=, east=)
BoundingBox(north, west, south, east) ==
    [north |-> north, west |-> west, south |-> south, east |-> east]

Max(a, b) == IF a >= b THEN a ELSE b

Min(a, b) == IF a <= b THEN a ELSE b

\* BoundingBox.merge: the union of the two extents
merge(a, b) ==
    BoundingBox(Max(a.north, b.north), Min(a.west, b.west),
                Min(a.south, b.south), Max(a.east, b.east))

\* BoundingBox.add_margins: the box grown by the margin on every side
add_margins(a, margins) ==
    BoundingBox(a.north + margins, a.west - margins,
                a.south - margins, a.east + margins)

\* -------------------------------------------------------------- Layer

\* Layer.__init__(data): the data directive and its type's default style
Layer(h, data) == [_data |-> data, _style |-> default_style(h[data].action)]

\* add_action with the two appends exchanged
add_action_style_first(layer, actions) ==
    LET a == IF layer._style # None THEN Append(actions, layer._style) ELSE actions
    IN  IF layer._data # None THEN Append(a, layer._data) ELSE a

\* Layer.add_action(actions)
add_action(layer, actions) ==
    LET a == IF layer._data # None THEN Append(actions, layer._data) ELSE actions
    IN  IF layer._style # None THEN Append(a, layer._style) ELSE a

\* ------------------------------------------------------------- Driver

\* the outcome of a Driver method: the Driver's fields, the heap, the index,
\* the exception raised ("" for none) and the external calls made, in order
Outcome(D, h, K, err, events) ==
    [drv |-> D, heap |-> h, keys |-> K, err |-> err, events |-> events]

\* self._options.provided(name)
provided(options, name) == name \in options.given

\* background with False resolved as True is
background_restores(D, value, h, K) ==
    Val(_apply(IF value = VFalse THEN VTrue ELSE value, "layers", "None",
               VStr("default-background"),
               TargetAction(D._background), h, K), LAMBDA r :
        IF r.err # "" THEN Outcome(D, r.heap, r.keys, r.err, <<>>)
        ELSE Outcome([D EXCEPT !._background = r.obj], r.heap, r.keys, "", <<>>))

\* Driver.background
background(D, value, h, K) ==
    Val(_apply(value, "layers", "None", VStr("default-background"),
               TargetAction(D._background), h, K), LAMBDA r :
        IF r.err # "" THEN Outcome(D, r.heap, r.keys, r.err, <<>>)
        ELSE Outcome([D EXCEPT !._background = r.obj], r.heap, r.keys, "", <<>>))

\* Driver.foreground
foreground(D, value, h, K) ==
    Val(_apply(value, "layers", "None", VStr("default-foreground"),
               TargetAction(D._foreground), h, K), LAMBDA r :
        IF r.err # "" THEN Outcome(D, r.heap, r.keys, r.err, <<>>)
        ELSE Outcome([D EXCEPT !._foreground = r.obj], r.heap, r.keys, "", <<>>))

\* projection with default=None handed to _apply
projection_default_none(D, value, h, K) ==
    Val(_apply(value, "projections", "None", VNone,
               TargetAction(D._projection), h, K), LAMBDA r :
        IF r.err # "" THEN Outcome(D, r.heap, r.keys, r.err, <<>>)
        ELSE Outcome([D EXCEPT !._projection = r.obj], r.heap, r.keys, "", <<>>))

\* Driver.projection: default is left at _apply's own default, True
projection(D, value, h, K) ==
    Val(_apply(value, "projections", "None", VTrue,
               TargetAction(D._projection), h, K), LAMBDA r :
        IF r.err # "" THEN Outcome(D, r.heap, r.keys, r.err, <<>>)
        ELSE Outcome([D EXCEPT !._projection = r.obj], r.heap, r.keys, "", <<>>))

\* style with the value resolved before the layers are looked at, and
\* nothing to do when it resolves to no directive
style_resolves_first(D, value, h, K) ==
    Val(_apply(value, "styles", "None", VTrue,
               IF Len(D._layers) > 0
               THEN TargetLayer(D._layers[Len(D._layers)]._style)
               ELSE TargetNone, h, K), LAMBDA r :
        IF r.err # "" THEN Outcome(D, r.heap, r.keys, r.err, <<>>)
        ELSE IF Len(D._layers) > 0
        THEN Outcome([D EXCEPT !._layers[Len(D._layers)]._style = r.obj],
                     r.heap, r.keys, "", <<>>)
        ELSE IF r.obj = None THEN Outcome(D, r.heap, r.keys, "", <<>>)
        ELSE Outcome(D, r.heap, r.keys, "Exception: no current data layer", <<>>))

\* Driver.style
style(D, value, h, K) ==
    IF Len(D._layers) > 0
    THEN Val(_apply(value, "styles", "None", VTrue,
                    TargetLayer(D._layers[Len(D._layers)]._style), h, K), LAMBDA r :
             IF r.err # "" THEN Outcome(D, r.heap, r.keys, r.err, <<>>)
             ELSE Outcome([D EXCEPT !._layers[Len(D._layers)]._style = r.obj],
                          r.heap, r.keys, "", <<>>))
    ELSE Outcome(D, h, K, "Exception: no current data layer", <<>>)

\* the accumulated box replaced by the new one
AccumulateLatest(current, bbox) == bbox

\* the accumulated box after one more: lines 317-320
Accumulate(current, bbox) ==
    IF current = VNone THEN bbox ELSE merge(current, bbox)

\* Driver.bounding_box
bounding_box(D, north, west, south, east, h, K) ==
    Outcome([D EXCEPT !._bounding_box =
                 Accumulate(@, BoundingBox(north, west, south, east))],
            h, K, "",
            <<[call |-> "BoundingBox", box |-> BoundingBox(north, west, south, east)]>>)

\* Driver._push_layer
_push_layer(D, h, data) == [D EXCEPT !._layers = Append(@, Layer(h, data))]

\* Driver.plot_grib
plot_grib(D, path, offset, h, K) ==
    Val(NewAction(h, "mgrib",
            KwOf(<<Item(<<"grib_input_file_name">>, Lit(path)),
                   Item(<<"grib_file_address_mode">>, Lit("byte_offset")),
                   Item(<<"grib_field_position">>, Num(offset))>>)), LAMBDA h1 :
        Outcome(_push_layer(D, h1, Len(h1)), h1, K, "", <<>>))

\* Driver.plot_csv
plot_csv(D, path, variable, h, K) ==
    Val(NewAction(h, "mtable",
            KwOf(<<Item(<<"table_filename">>, Lit(path)),
                   Item(<<"table_latitude_variable">>, Lit("1")),
                   Item(<<"table_longitude_variable">>, Lit("2")),
                   Item(<<"table_value_variable">>, Lit("3")),
                   Item(<<"table_header_row">>, Num(0)),
                   Item(<<"table_variable_identifier_type">>, Lit("index"))>>)),
        LAMBDA h1 :
    Val(_push_layer(D, h1, Len(h1)), LAMBDA D1 :
        style(D1, VStr("default-style-observations"), h1, K)))

\* Driver.macro: the assembled sequence
macro(D) ==
    LET m0 == <<D._projection, D._background>>
        AddLayers[i \in 0..Len(D._layers)] ==
            IF i = 0 THEN m0 ELSE add_action(D._layers[i], AddLayers[i - 1])
    IN  SelectSeq(AddLayers[Len(D._layers)]
                    \o <<D._rivers, D._borders, D._cities, D._foreground,
                         D._grid, D._legend, D._title>>,
                  LAMBDA x : x # None)

\* Driver.__init__
Driver_init(options, h, K) ==
    Val(background([_options |-> options,
                    _projection |-> None, _background |-> None, _foreground |-> None,
                    _layers |-> <<>>,
                    _page_ratio |-> [num |-> 1, den |-> 1],
                    _grid |-> None, _rivers |-> None, _cities |-> None,
                    _borders |-> None, _legend |-> None, _title |-> None,
                    _bounding_box |-> VNone],
                   VTrue, h, K), LAMBDA b :
        foreground(b.drv, VTrue, b.heap, b.keys))

\* --------------------------------------------------------- Driver.show

\* the rest of a method runs only if nothing was raised so far
Then(o, F(_)) == Val(o, LAMBDA v : IF v.err # "" THEN v ELSE F(v))

\* a step that creates one Action and stores it with Put(D, id)
Create(o, cls, kw, Put(_, _)) ==
    Val(NewAction(o.heap, cls, kw), LAMBDA h1 :
        [o EXCEPT !.heap = h1, !.drv = Put(o.drv, Len(h1))])

\* the fraction the other way up: east - west over north - south
page_ratio_inverted(kw) ==
    LET south == KwGet(kw, <<"subpage_lower_left_latitude">>, Num(-90))
        west == KwGet(kw, <<"subpage_lower_left_longitude">>, Num(-180))
        north == KwGet(kw, <<"subpage_upper_right_latitude">>, Num(90))
        east == KwGet(kw, <<"subpage_upper_right_longitude">>, Num(180))
    IN  [num |-> east.num - west.num, den |-> north.num - south.num]

\* mmap.page_ratio, as the exact fraction north - south over east - west
page_ratio(kw) ==
    LET south == KwGet(kw, <<"subpage_lower_left_latitude">>, Num(-90))
        west == KwGet(kw, <<"subpage_lower_left_longitude">>, Num(-180))
        north == KwGet(kw, <<"subpage_upper_right_latitude">>, Num(90))
        east == KwGet(kw, <<"subpage_upper_right_longitude">>, Num(180))
    IN  [num |-> north.num - south.num, den |-> east.num - west.num]

\* a call made from show: its exception and events join those so far
Called(o, r) ==
    Val(r, LAMBDA v : [v EXCEPT !.events = o.events \o v.events])

\* Driver.apply_options
apply_options(o0) ==
    Val(IF provided(o0.drv._options, "style")
        THEN Called(o0, style(o0.drv, o0.drv._options.style, o0.heap, o0.keys))
        ELSE o0, LAMBDA o1 :
    Then(o1, LAMBDA o :
        IF provided(o.drv._options, "bounding_box")
        THEN Called(o, bounding_box(o.drv, o.drv._options.bounding_box.north,
                                    o.drv._options.bounding_box.west,
                                    o.drv._options.bounding_box.south,
                                    o.drv._options.bounding_box.east, o.heap, o.keys))
        ELSE o))

\* the mcoast directive of one decoration toggle
Decoration(flag) ==
    KwOf(<<Item(<<flag>>, Lit("True")), Item(<<"map_grid">>, Lit("False")),
           Item(<<"map_coastline">>, Lit("False")), Item(<<"map_label">>, Lit("False"))>>)

\* lines 456-463: the background, foreground and projection options
ShowSlots(o0) ==
    Then(IF provided(o0.drv._options, "background")
         THEN Called(o0, background(o0.drv, o0.drv._options.background, o0.heap, o0.keys))
         ELSE o0, LAMBDA o1 :
    Then(IF provided(o1.drv._options, "foreground")
         THEN Called(o1, foreground(o1.drv, o1.drv._options.foreground, o1.heap, o1.keys))
         ELSE o1, LAMBDA o2 :
         IF provided(o2.drv._options, "projection")
         THEN Called(o2, projection(o2.drv, o2.drv._options.projection, o2.heap, o2.keys))
         ELSE o2))

\* self._options(name, False), as a truth value
On(o, name) == provided(o.drv._options, name) /\ o.drv._options[name]

\* lines 465-484: the grid, borders, rivers and cities toggles
ShowDecorations(o0) ==
    Val(IF On(o0, "grid")
        THEN Create(o0, "mcoast",
                    KwOf(<<Item(<<"map_grid">>, Lit("True")),
                           Item(<<"map_coastline">>, Lit("False"))>>),
                    LAMBDA D, id : [D EXCEPT !._grid = id])
        ELSE o0, LAMBDA o1 :
    Val(IF On(o1, "borders")
        THEN Create(o1, "mcoast", Decoration("map_boundaries"),
                    LAMBDA D, id : [D EXCEPT !._borders = id])
        ELSE o1, LAMBDA o2 :
    Val(IF On(o2, "rivers")
        THEN Create(o2, "mcoast", Decoration("map_rivers"),
                    LAMBDA D, id : [D EXCEPT !._rivers = id])
        ELSE o2, LAMBDA o3 :
        IF On(o3, "cities")
        THEN Create(o3, "mcoast", Decoration("map_cities"),
                    LAMBDA D, id : [D EXCEPT !._cities = id])
        ELSE o3)))

\* lines 493-495: the default projection
ShowDefaultProjection(o) ==
    IF o.drv._projection = None
    THEN Create(o, "mmap",
                KwOf(<<Item(<<"subpage_map_projection">>, Lit("cylindrical"))>>),
                LAMBDA D, id : [D EXCEPT !._projection = id])
    ELSE o

\* the dictionary of lines 500-505
ExtentPatch(bbox) ==
    <<Item(<<"=", "subpage_upper_right_longitude">>, Num(bbox.east)),
      Item(<<"=", "subpage_upper_right_latitude">>, Num(bbox.north)),
      Item(<<"=", "subpage_lower_left_latitude">>, Num(bbox.south)),
      Item(<<"=", "subpage_lower_left_longitude">>, Num(bbox.west))>>

\* self._options("margins", 0)
Margins(opt) == IF provided(opt, "margins") THEN opt.margins ELSE 0

\* lines 497-508: the accumulated box patched into the projection
ShowBoundingBox(o) ==
    IF o.drv._bounding_box # VNone
    THEN Val(_apply(VDict(ExtentPatch(add_margins(o.drv._bounding_box,
                                                  Margins(o.drv._options)))),
                    "None", "mmap", VTrue,
                    TargetAction(o.drv._projection), o.heap, o.keys), LAMBDA r :
             IF r.err # "" THEN [o EXCEPT !.heap = r.heap, !.keys = r.keys, !.err = r.err]
             ELSE [o EXCEPT !.heap = r.heap, !.keys = r.keys,
                            !.drv._projection = r.obj])
    ELSE o

\* the four extent parameters of the projection
ExtentKeys ==
    {<<"subpage_lower_left_latitude">>, <<"subpage_lower_left_longitude">>,
     <<"subpage_upper_right_latitude">>, <<"subpage_upper_right_longitude">>}

\* line 510: self._page_ratio = self._projection.page_ratio()
ShowPageRatio(o) ==
    Val(o.heap[o.drv._projection], LAMBDA p :
        IF p.action # "mmap" THEN [o EXCEPT !.err = "AttributeError"]
        ELSE IF \E k \in ExtentKeys \cap DOMAIN p.kwargs : "num" \notin DOMAIN p.kwargs[k]
        THEN [o EXCEPT !.err = "TypeError"]
        ELSE IF page_ratio(p.kwargs).den = 0 THEN [o EXCEPT !.err = "ZeroDivisionError"]
        ELSE [o EXCEPT !.drv._page_ratio = page_ratio(p.kwargs)])

\* self._options("title", None)
Title(opt) == IF provided(opt, "title") THEN opt.title ELSE VNone

\* `if title:`
Titled(opt) ==
    Title(opt) = VTrue \/ (Title(opt).kind = "str" /\ Title(opt).s # "")

\* lines 512-527: the title directive
ShowTitle(o) ==
    IF Title(o.drv._options) = VTrue
    THEN Create(o, "mtext", <<>>, LAMBDA D, id : [D EXCEPT !._title = id])
    ELSE IF Titled(o.drv._options)
    THEN Create(o, "mtext",
                KwOf(<<Item(<<"text_lines">>, Lit(Title(o.drv._options).s))>>),
                LAMBDA D, id : [D EXCEPT !._title = id])
    ELSE o

\* the title band, in millimetres (0.7 cm)
TitleBand(opt) == IF Titled(opt) THEN 7 ELSE 0

\* lines 529-545: the output page
Page(D) ==
    [action |-> "output", page_ratio |-> D._page_ratio,
     title_height_mm |-> TitleBand(D._options)]

\* the renderer called again when it failed
ShowPlotRetry(o, renderer_fails) ==
    LET plot == [call |-> "plot", page |-> Page(o.drv),
                 args |-> [i \in 1..Len(macro(o.drv)) |-> o.heap[macro(o.drv)[i]]]]
    IN  [o EXCEPT !.events = @ \o <<[call |-> "check_unused"], plot>>
                                \o (IF renderer_fails THEN <<plot>> ELSE <<>>),
                  !.err = IF renderer_fails THEN "RenderFailure" ELSE ""]

\* the renderer first, the unused-option check once it has returned
ShowPlotThenCheck(o, renderer_fails) ==
    LET plot == [call |-> "plot", page |-> Page(o.drv),
                 args |-> [i \in 1..Len(macro(o.drv)) |-> o.heap[macro(o.drv)[i]]]]
    IN  [o EXCEPT !.events = @ \o <<plot>>
                                \o (IF renderer_fails THEN <<>>
                                    ELSE <<[call |-> "check_unused"]>>),
                  !.err = IF renderer_fails THEN "RenderFailure" ELSE ""]

\* lines 547-566: the unused-option check, then the renderer
ShowPlot(o, renderer_fails) ==
    [o EXCEPT !.events = @ \o
                  <<[call |-> "check_unused"],
                    [call |-> "plot", page |-> Page(o.drv),
                     args |-> [i \in 1..Len(macro(o.drv)) |-> o.heap[macro(o.drv)[i]]]]>>,
              !.err = IF renderer_fails THEN "RenderFailure" ELSE ""]

\* lines 454-495: show, up to the projection the box is patched into
ShowPrepare(D, h, K) ==
    Then(apply_options(Outcome(D, h, K, "", <<>>)), LAMBDA o1 :
    Then(ShowSlots(o1), LAMBDA o2 :
    Then(ShowDecorations(o2), LAMBDA o3 :
         ShowDefaultProjection(o3))))

\* Driver.show
show(D, renderer_fails, h, K) ==
    Then(ShowPrepare(D, h, K), LAMBDA o4 :
    Then(ShowBoundingBox(o4), LAMBDA o5 :
    Then(ShowPageRatio(o5), LAMBDA o6 :
    Then(ShowTitle(o6), LAMBDA o7 :
         ShowPlot(o7, renderer_fails)))))

\* ------------------------------------------------------------- inputs

Red == VDict(<<Item(<<"+", "contour_line_colour">>, Lit("red"))>>)

Blue == VDict(<<Item(<<"contour_line_colour">>, Lit("blue"))>>)

Mixed ==
    VDict(<<Item(<<"+", "contour_line_colour">>, Lit("red")),
            Item(<<"legend">>, Lit("True"))>>)

NoGrid == VDict(<<Item(<<"+", "map_grid">>, Lit("False"))>>)

World ==
    VDict(<<Item(<<"subpage_lower_left_latitude">>, Num(-90)),
            Item(<<"subpage_lower_left_longitude">>, Num(-180)),
            Item(<<"subpage_upper_right_latitude">>, Num(90)),
            Item(<<"subpage_upper_right_longitude">>, Num(180))>>)

BoxA == BoundingBox(10, -10, -10, 10)

BoxB == BoundingBox(20, -5, -20, 5)

BoxC == BoundingBox(50, 30, 40, 30)

Boxes == {BoxA, BoxB, BoxC}

\* the options a Driver is constructed with: the names given, and their values
Options(given, o) ==
    [given |-> given,
     style |-> IF "style" \in given THEN o.style ELSE VNone,
     bounding_box |-> IF "bounding_box" \in given THEN o.bounding_box ELSE BoxA,
     background |-> IF "background" \in given THEN o.background ELSE VNone,
     foreground |-> IF "foreground" \in given THEN o.foreground ELSE VNone,
     projection |-> IF "projection" \in given THEN o.projection ELSE VNone,
     grid |-> IF "grid" \in given THEN o.grid ELSE FALSE,
     borders |-> IF "borders" \in given THEN o.borders ELSE FALSE,
     rivers |-> IF "rivers" \in given THEN o.rivers ELSE FALSE,
     cities |-> IF "cities" \in given THEN o.cities ELSE FALSE,
     title |-> IF "title" \in given THEN o.title ELSE VNone,
     margins |-> IF "margins" \in given THEN o.margins ELSE 0]

NoOptions == Options({}, <<>>)

OptionChoices ==
    {NoOptions,
     Options({"grid", "rivers", "title", "background"},
             [grid |-> TRUE, rivers |-> TRUE, title |-> VStr("T"),
              background |-> VTrue]),
     Options({"style", "foreground", "borders", "cities", "title"},
             [style |-> VFalse, foreground |-> VFalse, borders |-> TRUE,
              cities |-> TRUE, title |-> VTrue])}

StyleValues == {VNone, VFalse, VStr("default-style-observations")}

SlotValues == {VTrue, VFalse}

ProjectionValues == {VTrue, VStr("europe")}

\* ------------------------------------------------------------ actions

\* the boxes a call constructed, in order
BoxesOf(events) ==
    Val(SelectSeq(events, LAMBDA e : e.call = "BoundingBox"), LAMBDA made :
        [i \in 1..Len(made) |-> made[i].box])

\* every reference a Driver holds, in slot order
Refs(D) ==
    LET LayerRefs[i \in 0..Len(D._layers)] ==
            IF i = 0 THEN <<>>
            ELSE LayerRefs[i - 1] \o <<D._layers[i]._data, D._layers[i]._style>>
    IN  <<D._projection, D._background>> \o LayerRefs[Len(D._layers)]
          \o <<D._rivers, D._borders, D._cities, D._foreground,
               D._grid, D._legend, D._title>>

\* s without the repeats of an element
RECURSIVE Distinct(_)
Distinct(s) ==
    IF s = <<>> THEN <<>>
    ELSE Val(Distinct(SubSeq(s, 1, Len(s) - 1)), LAMBDA front :
             IF \E i \in 1..Len(front) : front[i] = s[Len(s)] THEN front
             ELSE Append(front, s[Len(s)]))

\* the instances still referred to, in slot order: the class attribute first
Live(drvs) ==
    LET AllRefs[i \in 0..Len(drvs)] ==
            IF i = 0 THEN <<FieldAction_default_style>>
            ELSE AllRefs[i - 1] \o Refs(drvs[i])
    IN  Val(SelectSeq(AllRefs[Len(drvs)], LAMBDA x : x # None), LAMBDA refs :
            Distinct(refs))

\* the Driver with every reference x replaced by new[x]
Renumbered(D, new) ==
    [D EXCEPT !._projection = new[@], !._background = new[@], !._foreground = new[@],
              !._rivers = new[@], !._borders = new[@], !._cities = new[@],
              !._grid = new[@], !._legend = new[@], !._title = new[@],
              !._layers = [i \in 1..Len(@) |->
                              [_data |-> new[@[i]._data], _style |-> new[@[i]._style]]]]

\* the new number of every instance: its place among the live ones
Numbering(live, h) ==
    [x \in 0..Len(h) |->
        IF \E i \in 1..Len(live) : live[i] = x
        THEN CHOOSE i \in 1..Len(live) : live[i] = x ELSE None]

\* the state a call leaves behind: the Drivers and the instances they reach
Collected(drvs, h) ==
    Val(Live(drvs), LAMBDA live :
    Val(Numbering(live, h), LAMBDA new :
        [drivers |-> [i \in 1..Len(drvs) |-> Renumbered(drvs[i], new)],
         heap |-> [i \in 1..Len(live) |-> h[live[i]]]]))

\* one call of a Driver method: what it leaves behind
Do(d, op, arg, outcome) ==
    \E o \in {outcome} :
    \E c \in {Collected([drivers EXCEPT ![d] = o.drv], o.heap)} :
        /\ heap' = c.heap
        /\ MAGICS_KEYS' = o.keys
        /\ drivers' = c.drivers
        /\ last' = [op |-> op, d |-> d, arg |-> arg, err |-> o.err, events |-> o.events]
        /\ supplied' = [supplied EXCEPT ![d] = @ \o BoxesOf(o.events)]
        /\ UNCHANGED calls

CanPush(d) == Len(drivers[d]._layers) < MaxLayers

PlotGrib(d) ==
    /\ CanPush(d)
    /\ Do(d, "plot_grib", VNone, plot_grib(drivers[d], "a.grib", 0, heap, MAGICS_KEYS))

PlotCsv(d) ==
    /\ CanPush(d)
    /\ Do(d, "plot_csv", VNone, plot_csv(drivers[d], "a.csv", "v", heap, MAGICS_KEYS))

SetStyle(d, v) == Do(d, "style", v, style(drivers[d], v, heap, MAGICS_KEYS))

SetBackground(d, v) == Do(d, "background", v, background(drivers[d], v, heap, MAGICS_KEYS))

SetForeground(d, v) == Do(d, "foreground", v, foreground(drivers[d], v, heap, MAGICS_KEYS))

SetProjection(d, v) == Do(d, "projection", v, projection(drivers[d], v, heap, MAGICS_KEYS))

AddBoundingBox(d, b) ==
    /\ Len(supplied[d]) < MaxBoxes
    /\ Do(d, "bounding_box", b,
          bounding_box(drivers[d], b.north, b.west, b.south, b.east, heap, MAGICS_KEYS))

\* (a show that hands one more box to bounding_box counts against MaxBoxes)
Show(d, renderer_fails) ==
    /\ provided(drivers[d]._options, "bounding_box") => Len(supplied[d]) < MaxBoxes
    /\ Do(d, "show", [renderer_fails |-> renderer_fails],
          show(drivers[d], renderer_fails, heap, MAGICS_KEYS))

\* ------------------------------------------------------ specifications

NoCall == [op |-> "__init__", d |-> 0, arg |-> VNone, err |-> "", events |-> <<>>]

\* the state after the module is imported and one Driver per element of
\* `options` is constructed, in order
RECURSIVE Constructed(_)
Constructed(options) ==
    IF options = <<>> THEN [drivers |-> <<>>, heap |-> ImportHeap, keys |-> KeysNone]
    ELSE Val(Constructed(SubSeq(options, 1, Len(options) - 1)), LAMBDA before :
         Val(Driver_init(options[Len(options)], before.heap, before.keys), LAMBDA c :
             [drivers |-> Append(before.drivers, c.drv), heap |-> c.heap,
              keys |-> c.keys]))

InitWith(options) ==
    \E c \in {Constructed(options)} :
    /\ heap = c.heap
    /\ MAGICS_KEYS = c.keys
    /\ drivers = c.drivers
    /\ supplied = [d \in 1..Len(options) |-> <<>>]
    /\ calls = <<>>
    /\ last = NoCall

\* Spec: one Driver, its layers, its slots and its rendering.
Init == \E options \in OptionChoices : InitWith(<<options>>)

Next ==
    \E d \in DOMAIN drivers :
        \/ PlotGrib(d)
        \/ PlotCsv(d)
        \/ \E v \in StyleValues : SetStyle(d, v)
        \/ \E v \in SlotValues : SetBackground(d, v)
        \/ \E v \in SlotValues : SetForeground(d, v)
        \/ \E v \in ProjectionValues : SetProjection(d, v)
        \/ \E f \in BOOLEAN : Show(d, f)

Spec == Init /\ [][Next]_vars

\* SpecBBox: one Driver, its bounding box, its projection and its rendering.
BoxOptionChoices ==
    {NoOptions,
     Options({"margins"}, [margins |-> 5]),
     Options({"projection", "bounding_box"},
             [projection |-> VStr("europe"), bounding_box |-> BoxB])}

BoxProjectionValues == {VFalse, VStr("europe"), World}

InitBBox == \E options \in BoxOptionChoices : InitWith(<<options>>)

NextBBox ==
    \E d \in DOMAIN drivers :
        \/ \E b \in Boxes : AddBoundingBox(d, b)
        \/ \E v \in BoxProjectionValues : SetProjection(d, v)
        \/ \E f \in BOOLEAN : Show(d, f)

SpecBBox == InitBBox /\ [][NextBBox]_vars

\* SpecStyle: two Drivers, their layers and the styles of their layers.
LayerStyleValues == {VFalse, VStr("default-style-observations"), Red}

InitStyle == InitWith(<<NoOptions, NoOptions>>)

NextStyle ==
    \E d \in DOMAIN drivers :
        \/ PlotGrib(d)
        \/ PlotCsv(d)
        \/ \E v \in LayerStyleValues : SetStyle(d, v)

SpecStyle == InitStyle /\ [][NextStyle]_vars

\* SpecApply: single calls of _apply, on a heap that holds a Driver's
\* background and foreground and a projection, with the index loaded or not.
ApplyHeap ==
    _apply(VStr("europe"), "projections", "None", VTrue, TargetNone,
           Constructed(<<NoOptions>>).heap, KeysNone).heap

Grouped ==
    VDict(<<Item(<<"set">>, [dict |-> <<Item(<<"map_grid">>, Lit("True"))>>]),
            Item(<<"clear">>, [list |-> <<<<"map_label">>>>])>>)

\* a patch: the items to add and the keys to remove
PatchChoices ==
    {[adds |-> <<>>, removes |-> <<>>],
     [adds |-> <<Item(<<"map_grid">>, Lit("True"))>>,
      removes |-> <<<<"map_label">>>>],
     [adds |-> <<Item(<<"map_grid">>, Lit("False"))>>,
      removes |-> <<<<"map_coastline_land_shade">>>>],
     [adds |-> <<Item(<<"map_grid">>, Lit("True"))>>,
      removes |-> <<<<"map_grid">>>>]}

\* {"set": adds, "clear": removes}
SetClear(p) ==
    VDict(<<Item(<<"set">>, [dict |-> p.adds]),
            Item(<<"clear">>, [list |-> p.removes])>>)

\* {"+": adds, "-": removes}
PlusMinus(p) ==
    VDict(<<Item(<<"+">>, [dict |-> p.adds]),
            Item(<<"-">>, [list |-> p.removes])>>)

\* {"+k": v, ..., "-k": None, ...}
FlatPrefixed(p) ==
    VDict([i \in 1..(Len(p.adds) + Len(p.removes)) |->
              IF i <= Len(p.adds)
              THEN Item(<<"+">> \o p.adds[i].k, p.adds[i].v)
              ELSE Item(<<"-">> \o p.removes[i - Len(p.adds)], Lit("None"))])

\* the three operations at once, against the default style of a field
StyleOps ==
    VDict(<<Item(<<"+", "contour_line_colour">>, Lit("red")),
            Item(<<"-", "legend">>, Lit("None")),
            Item(<<"=", "contour_automatic_setting">>, Lit("eccharts")),
            Item(<<"=", "contour_shade">>, Lit("True"))>>)

\* two keys of mcoast and one of mcont
TwoToOne ==
    VDict(<<Item(<<"map_grid">>, Lit("True")),
            Item(<<"map_label">>, Lit("False")),
            Item(<<"contour_line_colour">>, Lit("blue"))>>)

\* one key of mcoast and one of mcont
Tie ==
    VDict(<<Item(<<"map_grid">>, Lit("True")),
            Item(<<"contour_line_colour">>, Lit("blue"))>>)

\* a key of a type of the renderer that has no class in this module
Axis == VDict(<<Item(<<"axis_type">>, Lit("regular"))>>)

\* a key of two types and a key of none
Unknown ==
    VDict(<<Item(<<"legend">>, Lit("True")),
            Item(<<"text_colour">>, Lit("navy"))>>)

MixedAxis ==
    VDict(<<Item(<<"+", "map_grid">>, Lit("True")),
            Item(<<"axis_type">>, Lit("regular"))>>)

ApplyValues ==
    {VNone, VFalse, VTrue, VStr("default-background"), VStr("europe"),
     VStr("two-actions"), Red, Blue, Mixed, NoGrid, World, Grouped,
     StyleOps, TwoToOne, Tie, Axis, Unknown, MixedAxis, VDict(ExtentPatch(BoxA))}
      \cup {SetClear(p) : p \in PatchChoices}
      \cup {PlusMinus(p) : p \in PatchChoices}
      \cup {FlatPrefixed(p) : p \in PatchChoices}

ApplyCollections == {"None", "layers", "styles", "projections"}

ApplyActions == {"None", "mcont", "mmap"}

ApplyDefaults == {VTrue, VFalse, VNone, VStr("default-background"), Red, NoGrid}

ApplyTargets ==
    {TargetNone, TargetAction(2), TargetAction(4), TargetLayer(1), TargetLayer(None)}

InitApply ==
    /\ heap = ApplyHeap
    /\ MAGICS_KEYS \in {KeysNone, LoadKeys}
    /\ drivers = <<>>
    /\ supplied = <<>>
    /\ calls = <<>>
    /\ \E v \in ApplyValues, c \in ApplyCollections, a \in ApplyActions,
          df \in ApplyDefaults, t \in ApplyTargets :
          last = [op |-> "call", value |-> v, collection |-> c, action |-> a,
                  default |-> df, target |-> t]

\* the call is made: what it returned or raised, and what it left behind
Resolve ==
    /\ last.op = "call"
    /\ \E r \in {_apply(last.value, last.collection, last.action, last.default,
                        last.target, heap, MAGICS_KEYS)} :
          /\ heap' = r.heap
          /\ MAGICS_KEYS' = r.keys
          /\ last' = [last EXCEPT !.op = "_apply"] @@
                     [err |-> r.err, obj |-> r.obj, reads |-> r.reads]
    /\ UNCHANGED <<drivers, supplied, calls>>

NextApply == Resolve

SpecApply == InitApply /\ [][NextApply]_vars

\* SpecRace: two threads, each in a call of _apply with a flat dictionary
\* (as made by Driver.style of two Drivers), taking the statements of lines
\* 199-219 one at a time; the interpreter may switch threads between any two.
Legend == VDict(<<Item(<<"legend">>, Lit("True"))>>)

RaceValues == {Blue, Tie, Legend}

Threads == {1, 2}

\* the call entered: value, the line it is at, the place in the loop it is
\* in, and what MAGICS_KEYS.get gave it for each parameter so far
Entered(v) ==
    [value |-> v, pc |-> "test", at |-> 1, seen |-> <<>>, err |-> "", obj |-> None]

InitRace ==
    /\ heap = ApplyHeap
    /\ MAGICS_KEYS = KeysNone
    /\ drivers = <<>>
    /\ supplied = <<>>
    /\ last = [op |-> "import", t |-> 0, made |-> 0]
    /\ calls \in [Threads -> {Entered(v) : v \in RaceValues}]

\* f with k bound to v
Bound(f, k, v) == [x \in DOMAIN f \cup {k} |-> IF x = k THEN v ELSE f[x]]

\* lines 204-205 for the parameters of one name: MAGICS_KEYS[param].add(name)
Added(index, entry) ==
    [p \in DOMAIN index \cup entry.params |->
        (IF p \in DOMAIN index THEN index[p] ELSE {})
          \cup (IF p \in entry.params THEN {entry.name} ELSE {})]

\* line 199: if MAGICS_KEYS is None
TestKeys(t) ==
    /\ calls[t].pc = "test"
    /\ calls' = [calls EXCEPT ![t].pc = IF MAGICS_KEYS.built THEN "score" ELSE "new"]
    /\ last' = [last EXCEPT !.op = "is None", !.t = t]
    /\ UNCHANGED <<heap, MAGICS_KEYS, drivers, supplied>>

\* line 200: MAGICS_KEYS = defaultdict(set)
NewKeys(t) ==
    /\ calls[t].pc = "new"
    /\ MAGICS_KEYS' = [built |-> TRUE, index |-> <<>>]
    /\ calls' = [calls EXCEPT ![t].pc = "fill"]
    /\ last' = [op |-> "defaultdict", t |-> t, made |-> last.made + 1]
    /\ UNCHANGED <<heap, drivers, supplied>>

\* lines 203-205, one name of magics.yaml at a time, into the global as it
\* is then
FillKeys(t) ==
    /\ calls[t].pc = "fill"
    /\ MAGICS_KEYS' = [MAGICS_KEYS EXCEPT !.index = Added(@, magics_yaml[calls[t].at])]
    /\ calls' = [calls EXCEPT ![t] =
                    IF calls[t].at < Len(magics_yaml)
                    THEN [@ EXCEPT !.at = @ + 1]
                    ELSE [@ EXCEPT !.at = 1, !.pc = "score"]]
    /\ last' = [last EXCEPT !.op = "add", !.t = t]
    /\ UNCHANGED <<heap, drivers, supplied>>

\* lines 210-216, one key at a time: acts = MAGICS_KEYS.get(param, [])
ScoreKey(t) ==
    /\ calls[t].pc = "score"
    /\ calls[t].at <= Len(calls[t].value.items)
    /\ \E param \in {ScoredParam(calls[t].value.items[calls[t].at].k)} :
          calls' = [calls EXCEPT ![t].seen = Bound(@, param, KeysGet(MAGICS_KEYS, param)),
                                 ![t].at = @ + 1]
    /\ last' = [last EXCEPT !.op = "get", !.t = t]
    /\ UNCHANGED <<heap, MAGICS_KEYS, drivers, supplied>>

\* lines 217-253, with the acts the call was given: the directive made, or
\* the exception
Finish(t) ==
    /\ calls[t].pc = "score"
    /\ calls[t].at > Len(calls[t].value.items)
    /\ \E r \in {ApplyFlat(calls[t].value.items, "None", TargetNone, heap,
                            [built |-> TRUE, index |-> calls[t].seen])} :
          /\ heap' = r.heap
          /\ calls' = [calls EXCEPT ![t].pc = "done", ![t].err = r.err,
                                     ![t].obj = r.obj]
    /\ last' = [last EXCEPT !.op = "return", !.t = t]
    /\ UNCHANGED <<MAGICS_KEYS, drivers, supplied>>

NextRace ==
    \E t \in Threads :
        \/ TestKeys(t)
        \/ NewKeys(t)
        \/ FillKeys(t)
        \/ ScoreKey(t)
        \/ Finish(t)

SpecRace == InitRace /\ [][NextRace]_vars

\* --------------------------------------------------------- properties

\* the slot, when it holds a directive
Opt(x) == IF x = None THEN <<>> ELSE <<x>>

\* each layer's data directive, then its style directive when it has one
LayerPairs(layers) ==
    LET Pairs[i \in 0..Len(layers)] ==
            IF i = 0 THEN <<>>
            ELSE Pairs[i - 1] \o <<layers[i]._data>> \o Opt(layers[i]._style)
    IN  Pairs[Len(layers)]

\* the sequence the specification describes
Assembled(D) ==
    Opt(D._projection) \o Opt(D._background) \o LayerPairs(D._layers)
      \o Opt(D._rivers) \o Opt(D._borders) \o Opt(D._cities)
      \o Opt(D._foreground) \o Opt(D._grid) \o Opt(D._legend) \o Opt(D._title)

\* C1: in every reachable Driver state, macro() is exactly projection,
\* background, each layer's data then style in insertion order, rivers,
\* borders, cities, foreground, grid, legend, title, with the null slots and
\* null layer styles left out, and every layer has a data directive.
C1_AssemblyOrder ==
    \A d \in DOMAIN drivers :
        /\ macro(drivers[d]) = Assembled(drivers[d])
        /\ \A i \in DOMAIN drivers[d]._layers : drivers[d]._layers[i]._data # None

\* two layers, the first without a style, the background removed after a
\* rendering that set rivers, grid and title
C1_Witness ==
    /\ Len(drivers[1]._layers) = 2
    /\ drivers[1]._layers[1]._style = None
    /\ drivers[1]._layers[2]._style # None
    /\ drivers[1]._background = None
    /\ drivers[1]._rivers # None
    /\ drivers[1]._title # None
    /\ drivers[1]._projection # None

\* C3: style on a Driver without a layer raises "no current data layer" for
\* every value, absent and False included, and changes nothing: not the
\* Driver, not a directive, not the Parameter Index.
C3_StyleNeedsLayer ==
    [][\A d \in DOMAIN drivers :
          (last'.op = "style" /\ last'.d = d /\ Len(drivers[d]._layers) = 0)
          => /\ last'.err = "Exception: no current data layer"
             /\ drivers' = drivers
             /\ heap' = heap
             /\ MAGICS_KEYS' = MAGICS_KEYS
             /\ supplied' = supplied]_vars

\* style(False) was called on a Driver without a layer, and failed
C3_Witness ==
    /\ last.op = "style"
    /\ last.arg = VFalse
    /\ Len(drivers[last.d]._layers) = 0
    /\ last.err = "Exception: no current data layer"

\* the directives macro() may hold when the slot `slot` is left aside
Others(D, slot) ==
    {x \in {D._projection, D._rivers, D._borders, D._cities, D._grid,
            D._legend, D._title,
            IF slot = "background" THEN D._foreground ELSE D._background} :
        x # None}
      \cup {D._layers[i]._data : i \in DOMAIN D._layers}
      \cup {D._layers[i]._style : i \in DOMAIN D._layers}

\* the assembled sequence holds no entry for the slot
NoEntry(D, slot) ==
    \A i \in 1..Len(macro(D)) : macro(D)[i] \in Others(D, slot)

\* C4: background(False) (resp. foreground(False)) leaves the slot None; a
\* None slot becomes a directive again only by a background (foreground)
\* call or by a show whose options provide background (foreground); and
\* while the slot is None macro() holds no background (foreground) entry.
C4_RemovedStaysRemoved ==
    /\ [][\A d \in DOMAIN drivers :
            /\ (last'.op = "background" /\ last'.d = d /\ last'.arg = VFalse)
               => (last'.err = "" /\ drivers'[d]._background = None)
            /\ (last'.op = "foreground" /\ last'.d = d /\ last'.arg = VFalse)
               => (last'.err = "" /\ drivers'[d]._foreground = None)
            /\ (drivers[d]._background = None /\ drivers'[d]._background # None)
               => /\ last'.d = d
                  /\ \/ last'.op = "background"
                     \/ /\ last'.op = "show"
                        /\ provided(drivers[d]._options, "background")
            /\ (drivers[d]._foreground = None /\ drivers'[d]._foreground # None)
               => /\ last'.d = d
                  /\ \/ last'.op = "foreground"
                     \/ /\ last'.op = "show"
                        /\ provided(drivers[d]._options, "foreground")]_vars
    /\ [](\A d \in DOMAIN drivers :
            /\ drivers[d]._background = None => NoEntry(drivers[d], "background")
            /\ drivers[d]._foreground = None => NoEntry(drivers[d], "foreground"))

\* a layer was plotted and rendered with the background removed and no
\* background option: the slot is still None and the foreground is there
C4_Witness ==
    /\ last.op = "show"
    /\ last.err = ""
    /\ ~provided(drivers[1]._options, "background")
    /\ drivers[1]._background = None
    /\ drivers[1]._foreground # None
    /\ Len(drivers[1]._layers) > 0

\* C10: projection(True) fails with the assertion of _apply (no default is
\* handed over, so default stays True) and changes nothing: not the
\* projection slot, not another field of the Driver, not a directive.
C10_ProjectionTrueFails ==
    [][(last'.op = "projection" /\ last'.arg = VTrue)
          => /\ last'.err = "AssertionError"
             /\ drivers' = drivers
             /\ heap' = heap
             /\ MAGICS_KEYS' = MAGICS_KEYS
             /\ supplied' = supplied]_vars

\* projection(True) was called on a Driver that holds a projection, and failed
C10_Witness ==
    /\ last.op = "projection"
    /\ last.arg = VTrue
    /\ last.err = "AssertionError"
    /\ drivers[last.d]._projection # None

\* C2: a style call changes only the style of the last layer of its
\* Driver: the kwargs of the style of every other layer, of this Driver and
\* of every other, and the kwargs of the default style handed to the layers
\* added afterwards, stay as they were.
C2_StyleIsLocal ==
    [][last'.op = "style"
          => /\ heap'[FieldAction_default_style].kwargs
                  = heap[FieldAction_default_style].kwargs
             /\ \A e \in DOMAIN drivers : \A i \in DOMAIN drivers[e]._layers :
                   (/\ <<e, i>> # <<last'.d, Len(drivers[last'.d]._layers)>>
                    /\ drivers[e]._layers[i]._style # None)
                   => /\ drivers'[e]._layers[i]._style # None
                      /\ heap'[drivers'[e]._layers[i]._style].kwargs
                           = heap[drivers[e]._layers[i]._style].kwargs]_vars

\* the union of the boxes of a non-empty sequence
Union(S) ==
    BoundingBox(CHOOSE n \in {S[i].north : i \in DOMAIN S} :
                    \A j \in DOMAIN S : n >= S[j].north,
                CHOOSE w \in {S[i].west : i \in DOMAIN S} :
                    \A j \in DOMAIN S : w <= S[j].west,
                CHOOSE x \in {S[i].south : i \in DOMAIN S} :
                    \A j \in DOMAIN S : x <= S[j].south,
                CHOOSE e \in {S[i].east : i \in DOMAIN S} :
                    \A j \in DOMAIN S : e >= S[j].east)

\* C5: the accumulated box is None until a first box is supplied, and then
\* it is the union of the boxes supplied so far (greatest north and east,
\* least south and west), whatever their order; a step never shrinks it.
C5_BoxIsUnion ==
    /\ [](\A d \in DOMAIN drivers :
            IF supplied[d] = <<>> THEN drivers[d]._bounding_box = VNone
            ELSE drivers[d]._bounding_box = Union(supplied[d]))
    /\ [][\A d \in DOMAIN drivers :
            drivers[d]._bounding_box # VNone
            => /\ drivers'[d]._bounding_box # VNone
               /\ drivers'[d]._bounding_box.north >= drivers[d]._bounding_box.north
               /\ drivers'[d]._bounding_box.east >= drivers[d]._bounding_box.east
               /\ drivers'[d]._bounding_box.south <= drivers[d]._bounding_box.south
               /\ drivers'[d]._bounding_box.west <= drivers[d]._bounding_box.west]_vars

\* (10,-10,-10,10) then (20,-5,-20,5): north 20, west -10, south -20, east 10
C5_Witness ==
    /\ supplied[1] = <<BoxA, BoxB>>
    /\ last.op = "bounding_box"
    /\ drivers[1]._bounding_box = BoundingBox(20, -10, -20, 10)

\* the side of the box an extent parameter is set from
Side(box, k) ==
    CASE k = <<"subpage_upper_right_longitude">> -> box.east
      [] k = <<"subpage_upper_right_latitude">> -> box.north
      [] k = <<"subpage_lower_left_latitude">> -> box.south
      [] k = <<"subpage_lower_left_longitude">> -> box.west

\* a show step of Driver d that reached the patch of lines 497-508
Patching(d) ==
    /\ last'.op = "show"
    /\ last'.d = d
    /\ ShowPrepare(drivers[d], heap, MAGICS_KEYS).err = ""
    /\ ShowPrepare(drivers[d], heap, MAGICS_KEYS).drv._bounding_box # VNone

\* the box patched in, and the projection's kwargs before and after
Patched(d) ==
    LET p == ShowPrepare(drivers[d], heap, MAGICS_KEYS)
    IN  [box |-> add_margins(p.drv._bounding_box, Margins(p.drv._options)),
         before |-> p.heap[p.drv._projection].kwargs,
         after |-> heap'[drivers'[d]._projection].kwargs]

\* C6, as stated: after the patch the four extent parameters of the
\* projection equal the east, north, south and west of the margin-expanded
\* box, whether or not the projection carried extent values.
C6_AlwaysOverride ==
    [][\A d \in DOMAIN drivers :
          Patching(d)
          => \A k \in ExtentKeys :
                /\ k \in DOMAIN Patched(d).after
                /\ Patched(d).after[k] = Num(Side(Patched(d).box, k))]_vars

\* C6, amended: after the patch each extent parameter the projection did
\* not carry equals the side of the margin-expanded box, and each one it
\* carried keeps the value it had.
C6_SetIfAbsent ==
    [][\A d \in DOMAIN drivers :
          Patching(d)
          => \A k \in ExtentKeys :
                /\ k \in DOMAIN Patched(d).after
                /\ Patched(d).after[k] =
                      IF k \in DOMAIN Patched(d).before THEN Patched(d).before[k]
                      ELSE Num(Side(Patched(d).box, k))]_vars

\* rendered with a box accumulated and the "europe" projection, which
\* carries its own extent: the projection's south is still its own
C6_Witness ==
    /\ last.op = "show"
    /\ last.err = ""
    /\ drivers[1]._bounding_box = BoxA
    /\ drivers[1]._projection # None
    /\ <<"subpage_lower_left_latitude">> \in DOMAIN heap[drivers[1]._projection].kwargs
    /\ heap[drivers[1]._projection].kwargs[<<"subpage_lower_left_latitude">>] = Num(20)

\* the projection of Driver d spans the world: each extent parameter is
\* either left out or the world's
WorldExtent(d) ==
    /\ drivers[d]._projection # None
    /\ \A k \in ExtentKeys \cap DOMAIN heap[drivers[d]._projection].kwargs :
          heap[drivers[d]._projection].kwargs[k]
            = Num(Side(BoundingBox(90, -180, -90, 180), k))

\* the state right after show computed the page ratio of Driver d
Rendered(d) ==
    /\ last.op = "show"
    /\ last.d = d
    /\ last.err \in {"", "RenderFailure"}

\* C7, as stated: for a projection spanning the world, the page ratio show
\* computes is 1.0.
C7_WorldRatioOne ==
    \A d \in DOMAIN drivers :
        (Rendered(d) /\ WorldExtent(d))
        => drivers[d]._page_ratio.num = drivers[d]._page_ratio.den

\* C7, amended: for a projection spanning the world, the page ratio show
\* computes is 0.5: 180 degrees of latitude over 360 of longitude.
C7_WorldRatioHalf ==
    \A d \in DOMAIN drivers :
        (Rendered(d) /\ WorldExtent(d))
        => /\ 2 * drivers[d]._page_ratio.num = drivers[d]._page_ratio.den
           /\ drivers[d]._page_ratio.den # 0

\* rendered with the projection given as the dictionary of the world's
\* four extent parameters
C7_Witness ==
    /\ Rendered(1)
    /\ WorldExtent(1)
    /\ ExtentKeys \subseteq DOMAIN heap[drivers[1]._projection].kwargs
    /\ drivers[1]._page_ratio = [num |-> 180, den |-> 360]

\* C8: _apply returns None for value False and for value None, whatever the
\* collection, action, default and target, without reading the preset store
\* or the Parameter Index, and leaves every directive and MAGICS_KEYS alone.
C8_SuppressedIsNone ==
    [][(last'.op = "_apply" /\ last.value \in {VFalse, VNone})
          => /\ last'.err = ""
             /\ last'.obj = None
             /\ last'.reads = NoReads
             /\ heap' = heap
             /\ MAGICS_KEYS' = MAGICS_KEYS]_vars

\* False was resolved against a target, with a preset name for default, a
\* collection and an action, before the index was ever loaded
C8_Witness ==
    /\ last.op = "_apply"
    /\ last.value = VFalse
    /\ last.target = TargetAction(2)
    /\ last.default = VStr("default-background")
    /\ last.collection = "layers"
    /\ last.action = "mcont"
    /\ last.obj = None
    /\ ~MAGICS_KEYS.built

\* C9: for every default D that is not a boolean, _apply(True) returns or
\* raises what _apply(D) does with the same collection, action and target
\* (and any default), and leaves the same directives and index behind.
C9_TrueIsDefault ==
    [][(last'.op = "_apply" /\ last.value = VTrue /\ last.default.kind # "bool")
          => \A df \in ApplyDefaults :
                LET r == _apply(last.default, last.collection, last.action, df,
                                last.target, heap, MAGICS_KEYS)
                IN  /\ last'.err = r.err
                    /\ last'.obj = r.obj
                    /\ heap' = r.heap
                    /\ MAGICS_KEYS' = r.keys]_vars

\* True was resolved with a patch for default, against the directive the
\* patch applies to: the directive was patched and returned
C9_Witness ==
    /\ last.op = "_apply"
    /\ last.value = VTrue
    /\ last.default = NoGrid
    /\ last.target = TargetAction(2)
    /\ last.err = ""
    /\ last.obj = 2
    /\ heap[2].kwargs[<<"map_grid">>] = Lit("False")

\* what a call left behind is what r says
SameOutcome(r) ==
    /\ last'.err = r.err
    /\ last'.obj = r.obj
    /\ heap' = r.heap
    /\ MAGICS_KEYS' = r.keys

\* C11: for every items to add and keys to remove, {"set": adds, "clear":
\* removes}, {"+": adds, "-": removes} and the flat {"+k": v, "-k": None}
\* resolve alike against the same target, collection, action and default:
\* the same directive returned with the same kwargs, or the same exception.
C11_GroupedIsFlat ==
    [][\A p \in PatchChoices :
          (last'.op = "_apply" /\ last.value = SetClear(p))
          => /\ SameOutcome(_apply(PlusMinus(p), last.collection, last.action,
                                   last.default, last.target, heap, MAGICS_KEYS))
             /\ SameOutcome(_apply(FlatPrefixed(p), last.collection, last.action,
                                   last.default, last.target, heap, MAGICS_KEYS))]_vars

\* {"set": {"map_grid": False}, "clear": ["map_coastline_land_shade"]} was
\* resolved against the background: the one key is there, the other gone
C11_Witness ==
    /\ last.op = "_apply"
    /\ last.value = SetClear([adds |-> <<Item(<<"map_grid">>, Lit("False"))>>,
                              removes |-> <<<<"map_coastline_land_shade">>>>])
    /\ last.target = TargetAction(2)
    /\ last.err = ""
    /\ last.obj = 2
    /\ DOMAIN heap[2].kwargs = {<<"map_grid">>}

\* the call resolves a flat dictionary, not empty, of prefixed keys only
AllPrefixed(value) ==
    /\ value.kind = "dict"
    /\ value.items # <<>>
    /\ \A i \in 1..Len(value.items) :
          /\ Len(value.items[i].k) > 1
          /\ Head(value.items[i].k) \in {"+", "-", "="}

\* the type the dictionary of the call is applied as: inferred, else given
TypeOf(call) == Guessed(LoadKeys, call.value.items, call.action)

\* the call patches a directive of the type its dictionary is applied as
Matching(call) ==
    /\ AllPrefixed(call.value)
    /\ call.target.ref # None
    /\ TypeOf(call) \in Classes
    /\ IsInstance(heap[call.target.ref].action, TypeOf(call))

\* the call patches a directive of another type
Mismatched(call) ==
    /\ AllPrefixed(call.value)
    /\ call.target.ref # None
    /\ TypeOf(call) \in Classes
    /\ ~IsInstance(heap[call.target.ref].action, TypeOf(call))

\* the operations ("+", "-", "=") the dictionary names the parameter k by
OpsOn(items, k) == {Head(items[i].k) : i \in {j \in 1..Len(items) : Tail(items[j].k) = k}}

\* the value given with the operation op on k
Given(items, op, k) ==
    items[CHOOSE i \in 1..Len(items) : items[i].k = <<op>> \o k].v

\* kwargs `new` is kwargs `old` patched by the dictionary, for every
\* parameter named by one operation or by none
PatchedAs(old, new, items) ==
    \A k \in DOMAIN old \cup DOMAIN new \cup {Tail(items[i].k) : i \in 1..Len(items)} :
        /\ OpsOn(items, k) = {"+"}
           => (k \in DOMAIN new /\ new[k] = Given(items, "+", k))
        /\ OpsOn(items, k) = {"-"} => k \notin DOMAIN new
        /\ OpsOn(items, k) = {"="}
           => /\ k \in DOMAIN new
              /\ new[k] = IF k \in DOMAIN old THEN old[k] ELSE Given(items, "=", k)
        /\ OpsOn(items, k) = {}
           => /\ k \in DOMAIN new <=> k \in DOMAIN old
              /\ k \in DOMAIN old => new[k] = old[k]

\* C12: a dictionary of prefixed keys resolved against a directive of the
\* inferred (else given) type returns that very instance, with every "+key"
\* set to its value, every "-key" gone, every "=key" set only if it was not
\* there, and every other parameter, and every other directive, as it was.
C12_PatchInPlace ==
    [][(last'.op = "_apply" /\ Matching(last))
          => /\ last'.err = ""
             /\ last'.obj = last.target.ref
             /\ Len(heap') = Len(heap)
             /\ \A x \in 1..Len(heap) :
                   /\ heap'[x].action = heap[x].action
                   /\ x # last.target.ref => heap'[x] = heap[x]
             /\ PatchedAs(heap[last.target.ref].kwargs,
                          heap'[last.target.ref].kwargs, last.value.items)]_vars

\* the default style of a field patched by "+contour_line_colour",
\* "-legend", "=contour_automatic_setting" (there) and "=contour_shade" (new)
C12_Witness ==
    /\ last.op = "_apply"
    /\ last.value = StyleOps
    /\ last.target = TargetLayer(1)
    /\ last.obj = 1
    /\ heap[1].kwargs =
          KwOf(<<Item(<<"contour_automatic_setting">>, Lit("ecmwf")),
                 Item(<<"contour_line_colour">>, Lit("red")),
                 Item(<<"contour_shade">>, Lit("True"))>>)

\* C13: a dictionary of prefixed keys resolved against a directive that is
\* not of the inferred (else given) type: update returns None and changes
\* nothing, and _apply raises "no matching style" - no directive is
\* returned, none is made, none is changed.
C13_MismatchRaises ==
    [][(last'.op = "_apply" /\ Mismatched(last))
          => /\ Action_update(heap, last.target.ref, TypeOf(last), last.value.items)
                  = [obj |-> None, heap |-> heap]
             /\ last'.err = "Exception: no matching style"
             /\ last'.obj = None
             /\ heap' = heap]_vars

\* {"+contour_line_colour": "red"} resolved against the background, a mcoast
C13_Witness ==
    /\ last.op = "_apply"
    /\ last.value = Red
    /\ last.target = TargetAction(2)
    /\ heap[2].action = "mcoast"
    /\ last.err = "Exception: no matching style"

\* a dictionary that reaches the flat branch: none of the grouping keys
Flat(value) ==
    /\ value.kind = "dict"
    /\ \A i \in 1..Len(value.items) :
          value.items[i].k \notin {<<"set">>, <<"clear">>, <<"+">>, <<"-">>}

\* the keys with a modifier prefix
PrefixedKeys(value) ==
    {i \in 1..Len(value.items) : Head(value.items[i].k) \in {"+", "-", "="}}

\* C14: a flat dictionary with a prefixed key and an unprefixed one does
\* not resolve: an exception is raised ("cannot set some attributes and
\* override others", or KeyError before it when the inferred type has no
\* class), nothing is returned, no directive is made and none is changed.
C14_MixedRaises ==
    [][(/\ last'.op = "_apply"
        /\ Flat(last.value)
        /\ PrefixedKeys(last.value) # {}
        /\ PrefixedKeys(last.value) # 1..Len(last.value.items))
          => /\ last'.err = IF TypeOf(last) \in Classes \cup {"None"}
                            THEN "Exception: cannot mix" ELSE "KeyError"
             /\ last'.obj = None
             /\ heap' = heap]_vars

\* {"+contour_line_colour": "red", "legend": True} resolved against the
\* default style, which the prefixed key alone would have patched
C14_Witness ==
    /\ last.op = "_apply"
    /\ last.value = Mixed
    /\ last.target = TargetLayer(1)
    /\ last.err = "Exception: cannot mix"
    /\ <<"contour_line_colour">> \notin DOMAIN heap[1].kwargs

\* the types the keys of the dictionary belong to, one type per key
Unambiguous(items) ==
    UNION {KeysGet(LoadKeys, items[i].k) :
              i \in {j \in 1..Len(items) :
                        Cardinality(KeysGet(LoadKeys, items[j].k)) = 1}}

\* C15: a flat dictionary without a prefixed key, whose keys belong to one
\* directive type T of this module and no other, resolves to a new
\* directive of type T whose kwargs are the dictionary; the target is not
\* the directive returned, and no directive there was is changed.
C15_FlatIsNew ==
    [][\A T \in Classes :
          (/\ last'.op = "_apply"
           /\ Flat(last.value)
           /\ PrefixedKeys(last.value) = {}
           /\ Unambiguous(last.value.items) = {T})
          => /\ last'.err = ""
             /\ last'.obj = Len(heap) + 1
             /\ last'.obj # last.target.ref
             /\ heap' = Append(heap, [action |-> T, kwargs |-> KwOf(last.value.items)])]_vars

\* {"contour_line_colour": "blue"} resolved with action mmap given and the
\* default style for target: a new mcont
C15_Witness ==
    /\ last.op = "_apply"
    /\ last.value = Blue
    /\ last.action = "mmap"
    /\ last.target = TargetLayer(1)
    /\ last.obj = 5
    /\ heap[5] = [action |-> "mcont",
                  kwargs |-> KwOf(<<Item(<<"contour_line_colour">>, Lit("blue"))>>)]

\* the score of type T: the keys the index gives T for, and T alone
Points(items, T) ==
    Cardinality({i \in 1..Len(items) : KeysGet(LoadKeys, items[i].k) = {T}})

\* the candidate that is first by (score, name) ascending
Lowest(items) ==
    CHOOSE T \in Unambiguous(items) :
        \A U \in Unambiguous(items) \ {T} :
            \/ Points(items, T) < Points(items, U)
            \/ (Points(items, T) = Points(items, U) /\ Rank(T) < Rank(U))

\* C16: over a flat dictionary of unprefixed keys, a key of one type adds 1
\* to that type's score and a key of no type or of several adds nothing;
\* the type used is the candidate first by (score, name) ascending - the
\* lowest score, then the smallest name - tie or not; without a candidate
\* it is the action given.  A tie does not abort the call.
C16_LowestScoreWins ==
    [][(/\ last'.op = "_apply"
        /\ Flat(last.value)
        /\ PrefixedKeys(last.value) = {})
          => IF Unambiguous(last.value.items) # {}
             THEN IF Lowest(last.value.items) \in Classes
                  THEN /\ last'.err = ""
                       /\ heap'[last'.obj].action = Lowest(last.value.items)
                  ELSE last'.err = "KeyError"
             ELSE IF last.action # "None"
                  THEN /\ last'.err = ""
                       /\ heap'[last'.obj].action = last.action
                  ELSE last'.err = "TypeError"]_vars

\* two keys of mcoast and one of mcont: a mcont was made
C16_Witness ==
    /\ last.op = "_apply"
    /\ last.value = TwoToOne
    /\ last.err = ""
    /\ heap[last.obj].action = "mcont"

\* the dictionary with every prefix taken off its key
Stripped(items) == [i \in 1..Len(items) |-> Item(Tail(items[i].k), items[i].v)]

\* the outcome of patching the target of the call as type T
PatchedAsType(call, T) ==
    IF T = "None" THEN last'.err = "TypeError"
    ELSE IF T \notin Classes THEN last'.err = "KeyError"
    ELSE IF IsInstance(heap[call.target.ref].action, T)
    THEN last'.err = "" /\ last'.obj = call.target.ref
    ELSE last'.err = "Exception: no matching style"

\* C17, as stated: for a dictionary of prefixed keys no key changes the
\* inferred type, so the target is patched as the type the caller gave.
C17_PrefixedDoNotScore ==
    [][(/\ last'.op = "_apply"
        /\ AllPrefixed(last.value)
        /\ last.action # "None"
        /\ last.target.ref # None)
          => PatchedAsType(last, last.action)]_vars

\* C17, amended: a prefixed key scores under its name without the prefix,
\* as an unprefixed key does; the target is patched as the type inferred
\* from these names when one of them belongs to one type alone, and as the
\* type the caller gave only when none does.
C17_PrefixedScoreStripped ==
    [][(/\ last'.op = "_apply"
        /\ AllPrefixed(last.value)
        /\ last.target.ref # None)
          => PatchedAsType(last,
                 IF Unambiguous(Stripped(last.value.items)) # {}
                 THEN Lowest(Stripped(last.value.items))
                 ELSE last.action)]_vars

\* {"+contour_line_colour": "red"} resolved with action mmap given, against
\* the default style: patched, as a mcont
C17_Witness ==
    /\ last.op = "_apply"
    /\ last.value = Red
    /\ last.action = "mmap"
    /\ last.target = TargetLayer(1)
    /\ last.err = ""
    /\ last.obj = 1
    /\ heap[1].kwargs[<<"contour_line_colour">>] = Lit("red")

\* the places of the calls named `call` among the calls show made
Calls(call) == {i \in 1..Len(last'.events) : last'.events[i].call = call}

\* C18: show calls the renderer at most once: once when no step before it
\* raised, with the output page followed by the assembled sequence, and not
\* at all when a step before it raised; when the renderer fails, show
\* raises what it raised and does not call it again.
C18_RendererOnce ==
    [][last'.op = "show"
          => /\ Cardinality(Calls("plot")) <= 1
             /\ last'.err \notin {"", "RenderFailure"} => Calls("plot") = {}
             /\ last'.err \in {"", "RenderFailure"} => Calls("plot") # {}
             /\ \A i \in Calls("plot") :
                   /\ last'.events[i].page = Page(drivers'[last'.d])
                   /\ last'.events[i].args =
                         [j \in 1..Len(Assembled(drivers'[last'.d])) |->
                             heap'[Assembled(drivers'[last'.d])[j]]]]_vars

\* a Driver with a layer was rendered and the renderer failed: one call
C18_Witness ==
    /\ last.op = "show"
    /\ last.err = "RenderFailure"
    /\ Len(drivers[last.d]._layers) > 0
    /\ Cardinality({i \in 1..Len(last.events) : last.events[i].call = "plot"}) = 1

\* C19, as stated: in show, check_unused is called only after the call of
\* the renderer has completed, never before it.
C19_CheckAfterRenderer ==
    [][last'.op = "show"
          => \A i \in Calls("check_unused") : \E j \in Calls("plot") : j < i]_vars

\* C19, amended: in show, check_unused is called once, after every option
\* has been read and right before the renderer is called; it is never
\* called after the renderer, and not at all when a step before it raised.
C19_CheckBeforeRenderer ==
    [][last'.op = "show"
          => /\ Cardinality(Calls("check_unused")) <= 1
             /\ \A i \in Calls("check_unused") : i + 1 \in Calls("plot")
             /\ \A j \in Calls("plot") : j - 1 \in Calls("check_unused")
             /\ last'.err \notin {"", "RenderFailure"} => Calls("check_unused") = {}]_vars

\* a rendering that succeeded: check_unused, then the renderer, last
C19_Witness ==
    /\ last.op = "show"
    /\ last.err = ""
    /\ Len(last.events) >= 2
    /\ last.events[Len(last.events) - 1].call = "check_unused"
    /\ last.events[Len(last.events)].call = "plot"

\* the index holds all of magics.yaml
Complete(K) ==
    /\ K.built
    /\ DOMAIN K.index = DOMAIN LoadKeys.index
    /\ \A p \in DOMAIN K.index : K.index[p] = LoadKeys.index[p]

\* C20: whatever the interleaving of the calls, MAGICS_KEYS is made once,
\* every MAGICS_KEYS.get of the scoring loop gives what the whole index
\* gives for the parameter (never what an empty or half-filled index
\* gives), and the index, once whole, is not changed again.
C20_IndexBuiltOnce ==
    /\ [](/\ last.made <= 1
          /\ \A t \in DOMAIN calls : \A p \in DOMAIN calls[t].seen :
                calls[t].seen[p] = KeysGet(LoadKeys, p))
    /\ [][Complete(MAGICS_KEYS) => MAGICS_KEYS' = MAGICS_KEYS]_vars

====
